---- MODULE Spec2Model ----
(***************************************************************************)
(* EMODE: forward Euler sweep, reference solve and error accounting of     *)
(* src/computations/emode.py, with the web handler of src/frontend.py.     *)
(*                                                                         *)
(* Numbers are fixed-point: an integer counts ticks, Res ticks make one    *)
(* rounding quantum of EmodeList.safe_float, and the quantum is also the   *)
(* model's unit 1.0.  Products and quotients round to the nearest tick, as *)
(* floating point rounds to the nearest representable value.               *)
(***************************************************************************)
EXTENDS Integers, Sequences, FiniteSets, TLC

\* ---------------------------------------------------------------- bounds
Res      == 2      \* ticks per rounding quantum of safe_float
MaxSteps == 3      \* largest n_steps of a run the model explores
PowMax   == 1000   \* largest magnitude (ticks) float.__pow__ returns; beyond it OverflowError

One == Res

\* ------------------------------------------------------------ arithmetic
Abs(v) == IF v < 0 THEN -v ELSE v

Sgn(v) == IF v < 0 THEN -1 ELSE IF v = 0 THEN 0 ELSE 1

\* a / b rounded to the nearest integer (b # 0)
RoundDiv(a, b) ==
    Sgn(a) * Sgn(b) * ((2 * Abs(a) + Abs(b)) \div (2 * Abs(b)))

\* fixed-point product and quotient of two tick values
FMul(a, b) == RoundDiv(a * b, One)

FDiv(a, b) == RoundDiv(a * One, b)

\* ceil(a / b) for b # 0
CeilDiv(a, b) ==
    IF b > 0 THEN -((-a) \div b) ELSE -(a \div (-b))

\* integer square root (floor)
ISqrt(v) == CHOOSE r \in 0..v : r * r <= v /\ (r + 1) * (r + 1) > v

\* ----------------------------------------------------------- cell values
Num(v) == [tag |-> "num", val |-> v]

DNE  == [tag |-> "DNE", val |-> 0]

NA   == [tag |-> "N/A", val |-> 0]

None == [tag |-> "None", val |-> 0]

IsNum(c) == c.tag = "num"

\* round(float(value), 6): to the nearest quantum, ties to the even one
Round6(v) ==
    LET lo == (v \div Res) * Res
        r  == v - lo
    IN  IF 2 * r < Res THEN lo
        ELSE IF 2 * r > Res THEN lo + Res
        ELSE IF (lo \div Res) % 2 = 0 THEN lo ELSE lo + Res

safe_float(c) ==
    IF c.tag = "None" THEN DNE
    ELSE IF c.tag = "num" THEN Num(Round6(c.val))
    ELSE DNE

Node(x, expected, actual, abs_error, rel_error) ==
    [x |-> x, expected |-> expected, actual |-> actual,
     abs_error |-> abs_error, rel_error |-> rel_error]

insert_unless_failed(list, x, expected, actual, abs_error, rel_error) ==
    IF actual = DNE THEN list
    ELSE Append(list, Node(x, expected, actual, abs_error, rel_error))

insert_iteration(list, x, expected, actual, abs_error, rel_error) ==
    Append(list, Node(x, expected, actual, abs_error, rel_error))

to_dict_raw_x(list) ==
    [k \in 1..Len(list) |->
        [x         |-> list[k].x,
         expected  |-> IF list[k].expected = DNE THEN DNE
                       ELSE safe_float(list[k].expected),
         actual    |-> IF list[k].actual = DNE THEN DNE
                       ELSE safe_float(list[k].actual),
         abs_error |-> IF list[k].abs_error = NA THEN NA
                       ELSE safe_float(list[k].abs_error),
         rel_error |-> IF list[k].rel_error = NA THEN NA
                       ELSE safe_float(list[k].rel_error)]]

to_dict(list) ==
    [k \in 1..Len(list) |->
        [x         |-> safe_float(list[k].x),
         expected  |-> IF list[k].expected = DNE THEN DNE
                       ELSE safe_float(list[k].expected),
         actual    |-> IF list[k].actual = DNE THEN DNE
                       ELSE safe_float(list[k].actual),
         abs_error |-> IF list[k].abs_error = NA THEN NA
                       ELSE safe_float(list[k].abs_error),
         rel_error |-> IF list[k].rel_error = NA THEN NA
                       ELSE safe_float(list[k].rel_error)]]

\* ---------------------------------------------------------------- inputs
\* The parsed expressions a run may be given.  "" is an empty request body
\* field, "z" a lone unknown symbol; the others are sympy expressions in x, y.
Consts == {-One, 0, One}

Forms == {"x", "y", "x+y", "1/x", "1/y", "sqrt(x)", "y**2", "floor(I*x)", "", "z"}

Exprs == [form : {"const"}, c : Consts] \cup [form : Forms, c : {0}]

X0s     == {-2, 0}

Y0s     == {-2, 0, 3, 64}

StepSet == {-1, 0, 1, 2, 3}

Targets == {-2, 0, 2, 3, 4}

RefYs   == {-3, 0, 1, 4}

\* the symbols of x, y an expression references
FreeSyms(e) ==
    CASE e.form \in {"x", "1/x", "sqrt(x)", "floor(I*x)"} -> {"x"}
      [] e.form \in {"y", "1/y", "y**2"}                  -> {"y"}
      [] e.form = "x+y"                                   -> {"x", "y"}
      [] OTHER                                            -> {}

\* sympy's Basic.has(*patterns): true when ANY of the patterns occurs
Has(e, syms) == FreeSyms(e) \cap syms # {}

\* parse_latex / sympify / float(ode_expr): the exception parse_ode raises, or "none"
ParseError(e) ==
    CASE e.form = ""  -> "SympifyError"
      [] e.form = "z" -> "TypeError"
      [] OTHER        -> "none"

\* the signature by the symbols referenced: both, x alone, y alone, neither
SignatureBySymbols(e) ==
    IF Has(e, {"x"}) /\ Has(e, {"y"}) THEN "xy"
    ELSE IF Has(e, {"x"}) THEN "x"
    ELSE IF Has(e, {"y"}) THEN "y"
    ELSE "const"

\* the ode_type parse_ode assigns
Classify(e) ==
    IF Has(e, {"x", "y"}) THEN "xy"
    ELSE IF Has(e, {"x"}) THEN "x"
    ELSE IF Has(e, {"y"}) THEN "y"
    ELSE "const"

\* ------------------------------------------------------------- evaluator
Ok(v) == [kind |-> "ok", val |-> v]

Fail(k) == [kind |-> k, val |-> 0]

\* the value of the expression at (x, y), or the way its evaluation fails
Apply(e, x, y) ==
    CASE e.form = "const"      -> Ok(e.c)
      [] e.form = "x"          -> Ok(x)
      [] e.form = "y"          -> Ok(y)
      [] e.form = "x+y"        -> Ok(x + y)
      [] e.form = "1/x"        -> IF x = 0 THEN Fail("ZeroDivisionError")
                                  ELSE Ok(FDiv(One, x))
      [] e.form = "1/y"        -> IF y = 0 THEN Fail("ZeroDivisionError")
                                  ELSE Ok(FDiv(One, y))
      [] e.form = "sqrt(x)"    -> IF x < 0 THEN Fail("nan")
                                  ELSE Ok(ISqrt(x * One))
      [] e.form = "y**2"       -> IF Abs(FMul(y, y)) > PowMax
                                  THEN Fail("OverflowError")
                                  ELSE Ok(FMul(y, y))
      [] e.form = "floor(I*x)" -> Fail("TypeError")
      [] OTHER                 -> Fail("NameError")

\* the call of self.lambdified_ode made by the sweep for each ode_type
Slope(type, e, x, y) ==
    CASE type = "xy" -> Apply(e, x, y)
      [] type = "x"  -> Apply(e, x, 0)
      [] type = "y"  -> Apply(e, 0, y)
      [] OTHER       -> Apply(e, 0, 0)

\* np.isfinite(slope) fails the step with ValueError("Invalid slope value")
Raises(out) ==
    IF out.kind \in {"nan", "inf"} THEN "ValueError"
    ELSE IF out.kind = "ok" THEN "none"
    ELSE out.kind

\* except (ValueError, ZeroDivisionError, TypeError)
Caught == {"ValueError", "ZeroDivisionError", "TypeError"}

\* y_next = y_curr + self.step_size * slope
YNextNoStep(y, h, slope) == y + slope

YNext(y, h, slope) == y + FMul(h, slope)

\* x_next = x_curr + self.step_size
XNextStalled(x, h) == x

XNext(x, h) == x + h

\* n_steps = int(np.ceil((desired_x - initial_x) / step_size)), step_size # 0
NSteps(x0, target, h) == CeilDiv(target - x0, h)

\* ------------------------------------------------------- reference solve
\* np.linspace(initial_x, desired_x, n_points), n_points >= 1
Linspace(x0, target, n_points) ==
    [k \in 1..n_points |->
        IF n_points = 1 THEN x0
        ELSE x0 + RoundDiv((k - 1) * (target - x0), n_points - 1)]

\* the y samples solve_ivp may return for m >= 1 points: the first point is the
\* initial condition, the others are whatever the integrator computed
RefSamples(y0, m) ==
    {[k \in 1..m |-> IF k = 1 THEN y0 ELSE g[k - 1]] : g \in [1..(m - 1) -> RefYs]}

NearestIdxLast(xs, x) ==
    CHOOSE k \in 1..Len(xs) :
        /\ \A j \in 1..Len(xs) : Abs(xs[k] - x) <= Abs(xs[j] - x)
        /\ \A j \in (k + 1)..Len(xs) : Abs(xs[j] - x) > Abs(xs[k] - x)

\* min(range(len(xs)), key=lambda i: abs(xs[i] - x)): the first closest sample
NearestIdx(xs, x) ==
    CHOOSE k \in 1..Len(xs) :
        /\ \A j \in 1..Len(xs) : Abs(xs[k] - x) <= Abs(xs[j] - x)
        /\ \A j \in 1..(k - 1) : Abs(xs[j] - x) > Abs(xs[k] - x)

AccountNothing(node, xs, ys) == node

AccountFalsyGuard(node, xs, ys) ==
    LET y_expected == IF Len(xs) > 0 THEN Num(ys[NearestIdx(xs, node.x.val)])
                      ELSE DNE
        both    == node.actual # DNE /\ y_expected # DNE
        abs_err == IF both THEN Num(Abs(y_expected.val - node.actual.val)) ELSE NA
        rel_err == IF both /\ y_expected.val # 0 /\ abs_err.val # 0
                   THEN Num(FDiv(abs_err.val, y_expected.val))
                   ELSE NA
    IN  [node EXCEPT !.expected = y_expected,
                     !.abs_error = abs_err,
                     !.rel_error = rel_err]

\* one iteration of the error pass over a node
Account(node, xs, ys) ==
    LET y_expected == IF Len(xs) > 0 THEN Num(ys[NearestIdx(xs, node.x.val)])
                      ELSE DNE
        both    == node.actual # DNE /\ y_expected # DNE
        abs_err == IF both THEN Num(Abs(y_expected.val - node.actual.val)) ELSE NA
        rel_err == IF both /\ y_expected.val # 0
                   THEN Num(FDiv(abs_err.val, y_expected.val))
                   ELSE NA
    IN  [node EXCEPT !.expected = y_expected,
                     !.abs_error = abs_err,
                     !.rel_error = rel_err]

ErrorPassOf(list, xs, ys) ==
    [k \in 1..Len(list) |-> Account(list[k], xs, ys)]

\* ----------------------------------------------------------------- state
VARIABLES
    entry,            \* "web": POST /evaluate; "core": Emode(...).euler() called directly
    latex, initial_x, initial_y, step_size, desired_x,   \* the run's parameters
    pc,               \* position in evaluate() / euler()
    ode_type,         \* self.ode_type, "none" before parse_ode
    parse_count,      \* number of parse_ode calls made by the run
    nodes,            \* emode_list, head first
    x_curr, y_curr, n_steps, i,   \* the sweep's locals; i counts finished iterations
    trace,            \* per finished or aborted iteration: the point and the slope outcome
    sweep,            \* emode_list as the forward sweep left it
    solve,            \* how the reference solve ended
    x_vals_analytic, y_vals_analytic,
    result,           \* the list euler() returns
    exc,              \* the exception that left euler(), "none" otherwise
    response          \* what evaluate() answers, "none" before

vars == <<entry, latex, initial_x, initial_y, step_size, desired_x, pc, ode_type,
          parse_count, nodes, x_curr, y_curr, n_steps, i, trace, sweep, solve,
          x_vals_analytic, y_vals_analytic, result, exc, response>>

params == <<entry, latex, initial_x, initial_y, step_size, desired_x>>

Init ==
    /\ entry \in {"web", "core"}
    /\ latex \in Exprs
    /\ initial_x \in X0s
    /\ initial_y \in Y0s
    /\ step_size \in StepSet
    /\ desired_x \in Targets
    /\ step_size # 0 => NSteps(initial_x, desired_x, step_size) <= MaxSteps
    /\ pc = IF entry = "web" THEN "request" ELSE "parse"
    /\ ode_type = "none"
    /\ parse_count = 0
    /\ nodes = <<>>
    /\ x_curr = 0 /\ y_curr = 0 /\ n_steps = 0 /\ i = 0
    /\ trace = <<>>
    /\ sweep = <<>>
    /\ solve = "pending"
    /\ x_vals_analytic = <<>> /\ y_vals_analytic = <<>>
    /\ result = <<>>
    /\ exc = "none"
    /\ response = "none"

\* an exception leaves euler(): evaluate()'s except answers 400, a direct caller sees it
Propagate(e) ==
    /\ exc' = e
    /\ pc' = IF entry = "web" THEN "responded" ELSE "raised"
    /\ response' = IF entry = "web" THEN "error" ELSE response

\* evaluate(): validation, then the solver is built and euler() entered
Evaluate ==
    /\ pc = "request"
    /\ IF latex.form = ""
       THEN response' = "No LaTeX expression provided" /\ pc' = "responded"
       ELSE IF step_size <= 0
       THEN response' = "Step must be > 0" /\ pc' = "responded"
       ELSE IF desired_x <= initial_x
       THEN response' = "End must be greater than start" /\ pc' = "responded"
       ELSE response' = response /\ pc' = "parse"
    /\ UNCHANGED <<params, ode_type, parse_count, nodes, x_curr, y_curr, n_steps, i,
                   trace, sweep, solve, x_vals_analytic, y_vals_analytic, result, exc>>

\* euler(): self.parse_ode()
ParseOde ==
    /\ pc = "parse"
    /\ parse_count' = parse_count + 1
    /\ IF ParseError(latex) # "none"
       THEN Propagate(ParseError(latex)) /\ ode_type' = ode_type
       ELSE /\ ode_type' = Classify(latex)
            /\ pc' = "init"
            /\ UNCHANGED <<exc, response>>
    /\ UNCHANGED <<params, nodes, x_curr, y_curr, n_steps, i, trace, sweep, solve,
                   x_vals_analytic, y_vals_analytic, result>>

\* euler(): record 0 and the step count
SweepInit ==
    /\ pc = "init"
    /\ x_curr' = initial_x
    /\ y_curr' = initial_y
    /\ nodes' = insert_iteration(<<>>, Num(initial_x), None, Num(initial_y), None, None)
    /\ IF step_size = 0
       THEN Propagate("ZeroDivisionError") /\ n_steps' = n_steps
       ELSE /\ n_steps' = NSteps(initial_x, desired_x, step_size)
            /\ pc' = "sweep"
            /\ UNCHANGED <<exc, response>>
    /\ UNCHANGED <<params, ode_type, parse_count, i, trace, sweep, solve,
                   x_vals_analytic, y_vals_analytic, result>>

\* euler(): one iteration of the forward sweep
Step ==
    /\ pc = "sweep"
    /\ i < n_steps
    /\ LET out    == Slope(ode_type, latex, x_curr, y_curr)
           x_next == XNext(x_curr, step_size)
           y_next == YNext(y_curr, step_size, out.val)
       IN  /\ trace' = Append(trace, [x |-> x_curr, y |-> y_curr, out |-> out])
           /\ IF Raises(out) = "none"
              THEN /\ nodes' = insert_iteration(nodes, Num(x_next), None, Num(y_next), None, None)
                   /\ x_curr' = x_next /\ y_curr' = y_next
                   /\ i' = i + 1
                   /\ UNCHANGED <<pc, exc, response>>
              ELSE IF Raises(out) \in Caught
              THEN /\ nodes' = insert_iteration(nodes, Num(x_next), DNE, DNE, NA, NA)
                   /\ x_curr' = x_next /\ y_curr' = y_curr
                   /\ i' = i + 1
                   /\ UNCHANGED <<pc, exc, response>>
              ELSE /\ Propagate(Raises(out))
                   /\ UNCHANGED <<nodes, x_curr, y_curr, i>>
    /\ UNCHANGED <<params, ode_type, parse_count, n_steps, sweep, solve,
                   x_vals_analytic, y_vals_analytic, result>>

\* euler(): self._compute_analytic(n_steps + 1) under except Exception.  solve_ivp
\* either raises, or returns all samples, or gives up early without raising
\* (status -1) and returns the samples it reached.
Analytic ==
    /\ pc = "sweep"
    /\ i >= n_steps
    /\ sweep' = nodes
    /\ \/ /\ solve' = "raised"
          /\ x_vals_analytic' = <<>> /\ y_vals_analytic' = <<>>
       \/ /\ n_steps + 1 >= 1
          /\ solve' = "ok"
          /\ x_vals_analytic' = Linspace(initial_x, desired_x, n_steps + 1)
          /\ y_vals_analytic' \in RefSamples(initial_y, n_steps + 1)
       \/ /\ n_steps + 1 >= 1
          /\ solve' = "noconv"
          /\ \E k \in 0..n_steps :
                /\ x_vals_analytic' = SubSeq(Linspace(initial_x, desired_x, n_steps + 1), 1, k)
                /\ y_vals_analytic' \in IF k = 0 THEN {<<>>} ELSE RefSamples(initial_y, k)
    /\ pc' = "errors"
    /\ UNCHANGED <<params, ode_type, parse_count, nodes, x_curr, y_curr, n_steps, i,
                   trace, result, exc, response>>

\* euler(): the second pass over the ledger
ErrorPass ==
    /\ pc = "errors"
    /\ nodes' = ErrorPassOf(nodes, x_vals_analytic, y_vals_analytic)
    /\ pc' = "return"
    /\ UNCHANGED <<params, ode_type, parse_count, x_curr, y_curr, n_steps, i, trace,
                   sweep, solve, x_vals_analytic, y_vals_analytic, result, exc, response>>

\* euler(): return emode_list.to_dict()
Return ==
    /\ pc = "return"
    /\ result' = to_dict(nodes)
    /\ pc' = IF entry = "web" THEN "format" ELSE "done"
    /\ UNCHANGED <<params, ode_type, parse_count, nodes, x_curr, y_curr, n_steps, i,
                   trace, sweep, solve, x_vals_analytic, y_vals_analytic, exc, response>>

\* evaluate(): the table is formatted and answered
Respond ==
    /\ pc = "format"
    /\ response' = "table"
    /\ pc' = "responded"
    /\ UNCHANGED <<params, ode_type, parse_count, nodes, x_curr, y_curr, n_steps, i,
                   trace, sweep, solve, x_vals_analytic, y_vals_analytic, result, exc>>

Next ==
    \/ Evaluate
    \/ ParseOde
    \/ SweepInit
    \/ Step
    \/ Analytic
    \/ ErrorPass
    \/ Return
    \/ Respond

Spec == Init /\ [][Next]_vars

\* euler() returned its ledger
Returned == pc \in {"done", "format"} \/ response = "table"

\* the run's parameters satisfy the Stepper's precondition
ValidConfig == step_size > 0 /\ desired_x > initial_x

\* iteration k of the sweep (1-based) ended with a failed slope evaluation
FailedAt(k) == Raises(trace[k].out) # "none"

\* iteration k inserted its record (the sweep was not left by an exception there)
Finished(k) == k + 1 <= Len(nodes)

\* ---------------------------------------------------------------- claims

\* C1: for valid inputs the returned ledger has exactly
\* ceil((target_x - x0) / step) + 1 records, whatever steps failed; during the
\* sweep each finished iteration has inserted exactly one record.
C1_LedgerLength ==
    /\ pc = "sweep" => Len(nodes) = i + 1
    /\ (Returned /\ ValidConfig) =>
          /\ Len(result) = CeilDiv(desired_x - initial_x, step_size) + 1
          /\ Len(nodes) = Len(result)
          /\ Len(sweep) = Len(result)

C1_Witness ==
    /\ Returned /\ ValidConfig
    /\ Len(result) = 4
    /\ \E k \in 1..Len(trace) : FailedAt(k)
    /\ \E k \in 1..Len(trace) : ~FailedAt(k)

C3_NoFailureAborts ==
    \A k \in 1..Len(trace) :
        (ValidConfig /\ FailedAt(k)) => (exc = "none" /\ Finished(k) /\ nodes[k + 1].actual = DNE)

\* C4: with step <= 0 or target_x <= x0 nothing is computed: no expression is
\* parsed, no step taken, no record created, on either entry point.
C4_BadConfigRejected ==
    ~ValidConfig =>
        /\ parse_count = 0
        /\ Len(nodes) = 0
        /\ Len(trace) = 0
        /\ ~Returned

\* C5: where approx_y and reference_y are numbers and reference_y # 0,
\* abs_error = |reference_y - approx_y| and rel_error = abs_error / |reference_y|,
\* hence rel_error >= 0.
C5_RelErrorByMagnitude ==
    (ValidConfig /\ pc \in {"return", "done", "format", "responded"}) =>
        \A k \in 1..Len(nodes) :
            (IsNum(nodes[k].actual) /\ IsNum(nodes[k].expected) /\ nodes[k].expected.val # 0) =>
                /\ nodes[k].abs_error = Num(Abs(nodes[k].expected.val - nodes[k].actual.val))
                /\ nodes[k].rel_error =
                       Num(FDiv(nodes[k].abs_error.val, Abs(nodes[k].expected.val)))
                /\ nodes[k].rel_error.val >= 0

\* C6: on any failure of the reference solve, raised or reported without an
\* exception, the reference trajectory is empty and nothing leaves euler().
C6_FailedSolveIsEmpty ==
    (ValidConfig /\ solve \in {"raised", "noconv"}) =>
        /\ x_vals_analytic = <<>>
        /\ y_vals_analytic = <<>>
        /\ exc = "none"

\* C7: with an empty reference trajectory the returned ledger has its full
\* length, every expected is 'DNE', every abs_error and rel_error 'N/A', and x
\* and actual are those the forward sweep produced.
C7_EmptyReference ==
    (Returned /\ x_vals_analytic = <<>>) =>
        /\ ValidConfig => Len(result) = CeilDiv(desired_x - initial_x, step_size) + 1
        /\ Len(result) = Len(sweep)
        /\ \A k \in 1..Len(result) :
              /\ result[k].expected = DNE
              /\ result[k].abs_error = NA
              /\ result[k].rel_error = NA
              /\ nodes[k].x = sweep[k].x
              /\ nodes[k].actual = sweep[k].actual
              /\ result[k].x = safe_float(sweep[k].x)
              /\ result[k].actual = IF sweep[k].actual = DNE THEN DNE
                                    ELSE safe_float(sweep[k].actual)

C7_Witness ==
    /\ Returned /\ x_vals_analytic = <<>>
    /\ Len(result) = 4
    /\ \E k \in 1..4 : result[k].actual = DNE
    /\ IsNum(result[4].actual) /\ result[4].actual.val # 0

C9_EulerUpdate ==
    /\ latex.form = "const" =>
          /\ \A k \in 1..Len(nodes) :
                nodes[k].actual =
                    Num(initial_y + RoundDiv((k - 1) * step_size * latex.c, One))
          /\ \A k \in 1..Len(result) :
                result[k].actual =
                    Num(Round6(initial_y + RoundDiv((k - 1) * step_size * latex.c, One)))
    /\ \A k \in 1..Len(trace) :
          (~FailedAt(k) /\ Finished(k)) =>
              /\ trace[k].x = initial_x + (k - 1) * step_size
              /\ trace[k].y = IF \E j \in 1..k : IsNum(nodes[j].actual)
                              THEN nodes[CHOOSE j \in 1..k :
                                            /\ IsNum(nodes[j].actual)
                                            /\ \A m \in (j + 1)..k : ~IsNum(nodes[m].actual)
                                        ].actual.val
                              ELSE initial_y
              /\ nodes[k + 1].actual =
                    Num(trace[k].y
                        + RoundDiv(step_size * Apply(latex, trace[k].x, trace[k].y).val, One))

C9_Witness ==
    /\ Returned /\ ValidConfig
    /\ latex.form = "const" /\ latex.c # 0
    /\ Len(result) = 4
    /\ result[4].actual # result[1].actual

\* C10: the classifier assigns XY only to expressions in both x and y, X_ONLY
\* to x alone, Y_ONLY to y alone and CONST to neither, exactly once per run,
\* before the first iteration.
C10_SignatureBySymbols ==
    ValidConfig =>
        /\ ode_type # "none" => ode_type = SignatureBySymbols(latex)
        /\ pc \in {"init", "sweep", "errors", "return", "done", "format"} =>
              (parse_count = 1 /\ ode_type # "none")
        /\ Len(trace) > 0 => (parse_count = 1 /\ ode_type # "none")

\* C11 (as stated): in every returned ledger a record's rel_error is 'N/A'
\* exactly when its approx_y is unavailable, or its reference_y is unavailable,
\* or its reference_y == 0; in the last case abs_error is still a number, in
\* the first two it is 'N/A' as well.
C11_NotApplicableExactly ==
    (Returned /\ ValidConfig) =>
        \A k \in 1..Len(result) :
            LET r    == result[k]
                gone == r.actual = DNE \/ r.expected = DNE
                zero == IsNum(r.expected) /\ r.expected.val = 0
            IN  /\ r.rel_error = NA <=> (gone \/ zero)
                /\ (zero /\ ~gone) => IsNum(r.abs_error)
                /\ gone => r.abs_error = NA

\* C11 (amended): the same, with reference_y == 0 read on the matched reference
\* value itself, before to_dict rounds it: a nonzero reference value that
\* rounds to 0 is returned as 0 with a numeric rel_error.
C11_NotApplicableByMatchedValue ==
    (Returned /\ ValidConfig) =>
        \A k \in 1..Len(result) :
            LET r    == result[k]
                gone == r.actual = DNE \/ r.expected = DNE
                zero == IsNum(nodes[k].expected) /\ nodes[k].expected.val = 0
            IN  /\ r.rel_error = NA <=> (gone \/ zero)
                /\ nodes[k].rel_error = NA <=> (gone \/ zero)
                /\ r.actual = DNE <=> nodes[k].actual = DNE
                /\ r.expected = DNE <=> nodes[k].expected = DNE
                /\ (zero /\ ~gone) => (IsNum(r.abs_error) /\ IsNum(nodes[k].abs_error))
                /\ gone => (r.abs_error = NA /\ nodes[k].abs_error = NA)

C11_Witness ==
    /\ Returned /\ ValidConfig
    /\ \E k \in 1..Len(result) :
          result[k].actual = DNE /\ IsNum(result[k].expected) /\ result[k].rel_error = NA
    /\ \E k \in 1..Len(result) :
          /\ IsNum(result[k].actual) /\ nodes[k].expected = Num(0)
          /\ IsNum(result[k].abs_error) /\ result[k].abs_error.val # 0
          /\ result[k].rel_error = NA
    /\ \E k \in 1..Len(result) :
          /\ IsNum(nodes[k].expected) /\ nodes[k].expected.val # 0
          /\ result[k].expected = Num(0) /\ IsNum(result[k].rel_error)

\* the error pass has run over the whole ledger
Accounted == pc \in {"return", "done", "format"} \/ response = "table"

\* reference sample j is as close to x as any sample
Closest(j, x) ==
    \A m \in 1..Len(x_vals_analytic) :
        Abs(x_vals_analytic[j] - x) <= Abs(x_vals_analytic[m] - x)

\* C12: with a non-empty reference trajectory the second pass sets the expected
\* value of every record, records of failed steps included, to the y of the
\* reference sample whose x is closest to the record's x, and of two
\* equidistant samples to that of the one with the smaller index.
C12_NearestReference ==
    (Accounted /\ Len(x_vals_analytic) > 0) =>
        \A k \in 1..Len(nodes) :
            \E j \in 1..Len(x_vals_analytic) :
                /\ Closest(j, nodes[k].x.val)
                /\ \A m \in 1..(j - 1) : ~Closest(m, nodes[k].x.val)
                /\ nodes[k].expected = Num(y_vals_analytic[j])
                /\ Returned => result[k].expected = safe_float(Num(y_vals_analytic[j]))

C12_Witness ==
    /\ Returned /\ ValidConfig
    /\ \E k \in 1..Len(nodes) :
          /\ sweep[k].expected = DNE /\ sweep[k].actual = DNE
          /\ IsNum(nodes[k].expected)
          /\ \E j, m \in 1..Len(x_vals_analytic) :
                /\ j < m
                /\ Closest(j, nodes[k].x.val) /\ Closest(m, nodes[k].x.val)
                /\ y_vals_analytic[j] # y_vals_analytic[m]
                /\ nodes[k].expected = Num(y_vals_analytic[j])

====
